---- MODULE Spec2Model ----
(***************************************************************************)
(* Model of the WildfireCodesign scripts:                                  *)
(*   scripts/plot_wildfire_pareto.py  (tradespace plotter)                 *)
(*   scripts/gen_catalogues.py        (catalogue generator)                *)
(*                                                                         *)
(* Three specifications share the module:                                  *)
(*   SpecFn   - pareto_2d_min and shade_dominated_region applied to        *)
(*              arbitrary bounded point lists;                             *)
(*   SpecMain - one run of the plotter's main();                           *)
(*   SpecGen  - one call of gen_aircraft / gen_crews / gen_retardant.      *)
(*                                                                         *)
(* Python lists are sequences; Python indices are kept 0-based, so the     *)
(* element at Python index i of list s is s[i + 1].  Floats are modelled   *)
(* by integers (all model values are small integers, which float holds     *)
(* exactly); the 1.05 axis padding is kept exact by measuring plot         *)
(* coordinates in units of 1/LimDen.                                       *)
(***************************************************************************)
EXTENDS Integers, Sequences, FiniteSets, TLC

\* ------------------------------------------------------------------ bounds
\* Largest coordinate value (cost, load, time) of an input point.
MaxVal == 2
\* Largest number of input points.
MaxPts == 3
\* Largest --label-max value tried.
MaxLabel == 2
\* Largest n passed to a catalogue generator.
MaxN == 1

Vals == 1..MaxVal

\* ------------------------------------------------------- generic helpers
Max2(a, b) == IF a >= b THEN a ELSE b

Min2(a, b) == IF a <= b THEN a ELSE b

\* max(seq) of a non-empty list.
SeqMax(s) == CHOOSE m \in {s[i] : i \in DOMAIN s} : \A i \in DOMAIN s : s[i] <= m

\* Python's // (floor division), also for a negative divisor.
FloorDiv(a, b) ==
    IF b > 0 THEN a \div b
    ELSE LET na == 0 - a
             nb == 0 - b
         IN  na \div nb

\* Tuple comparison, as Python compares sort keys: lexicographic.
RECURSIVE LexLess(_, _)
LexLess(a, b) ==
    IF a = <<>> \/ b = <<>> THEN a = <<>> /\ b # <<>>
    ELSE IF a[1] # b[1] THEN a[1] < b[1]
    ELSE LexLess(Tail(a), Tail(b))

\* One insertion step of a stable sort: e goes after every element whose key
\* is not greater than its own.
RECURSIVE InsertByKey(_, _)
InsertByKey(sorted, e) ==
    IF sorted = <<>> THEN <<e>>
    ELSE IF LexLess(e.key, sorted[1].key) THEN <<e>> \o sorted
    ELSE <<sorted[1]>> \o InsertByKey(Tail(sorted), e)

\* list.sort(key=...): stable, ascending by key.  Elements are records with
\* a field key (a tuple of numbers).
RECURSIVE SortByKey(_)
SortByKey(s) ==
    IF s = <<>> THEN <<>>
    ELSE InsertByKey(SortByKey(SubSeq(s, 1, Len(s) - 1)), s[Len(s)])

\* [s[i] for i in idxs], idxs 0-based.
Pick(s, idxs) == [k \in 1..Len(idxs) |-> s[idxs[k] + 1]]

\* ----------------------------------------------------------- pareto_2d_min
\* The scan of pareto_2d_min over the sorted (idx, (l, c)) list, from
\* position k on, with the running best_cost and the frontier built so far.
RECURSIVE ParetoScan(_, _, _, _)
ParetoScan(pts, k, best_cost, frontier) ==
    IF k > Len(pts) THEN frontier
    ELSE IF pts[k].key[2] < best_cost
         THEN ParetoScan(pts, k + 1, pts[k].key[2], Append(frontier, pts[k].idx))
         ELSE ParetoScan(pts, k + 1, best_cost, frontier)

\* A scan that also accepts a cost equal to the running minimum.
RECURSIVE ParetoScanLe(_, _, _, _)
ParetoScanLe(pts, k, best_cost, frontier) ==
    IF k > Len(pts) THEN frontier
    ELSE IF pts[k].key[2] <= best_cost
         THEN ParetoScanLe(pts, k + 1, pts[k].key[2], Append(frontier, pts[k].idx))
         ELSE ParetoScanLe(pts, k + 1, best_cost, frontier)

\* float("inf") for a scan over costs: above every cost of the list.
FloatInf(costs) == IF costs = <<>> THEN 0 ELSE SeqMax(costs) + 1

\* enumerate(zip(loads, costs)): zip stops at the shorter list.
EnumZip(loads, costs) ==
    [i \in 1..Min2(Len(loads), Len(costs)) |->
        [idx |-> i - 1, key |-> <<loads[i], costs[i]>>]]

\* pareto_2d_min with <= in place of < in the scan.
pareto_2d_min_le(loads, costs) ==
    ParetoScanLe(SortByKey(EnumZip(loads, costs)), 1, FloatInf(costs), <<>>)

\* pareto_2d_min that sorts first and enumerates afterwards, so that the
\* indices it returns are positions in the sorted list.
pareto_2d_min_sortedidx(loads, costs) ==
    LET sorted == SortByKey(EnumZip(loads, costs))
        renum  == [i \in 1..Len(sorted) |-> [idx |-> i - 1, key |-> sorted[i].key]]
    IN  ParetoScan(renum, 1, FloatInf(costs), <<>>)

pareto_2d_min(loads, costs) ==
    ParetoScan(SortByKey(EnumZip(loads, costs)), 1, FloatInf(costs), <<>>)

\* --------------------------------------------------- shade_dominated_region
\* The polygon handed to ax.fill, as its vertex lists; no polygon (empty
\* vertex lists) when the frontier is empty.
shade_dominated_region(frontier_loads, frontier_costs, x_max, y_max) ==
    IF frontier_loads = <<>> THEN [x |-> <<>>, y |-> <<>>]
    ELSE LET zipped   == [i \in 1..Min2(Len(frontier_loads), Len(frontier_costs)) |->
                            [p |-> <<frontier_loads[i], frontier_costs[i]>>,
                             key |-> <<frontier_loads[i]>>]]
             frontier == SortByKey(zipped)
             fx       == [i \in 1..Len(frontier) |-> frontier[i].p[1]]
             fy       == [i \in 1..Len(frontier) |-> frontier[i].p[2]]
         IN  [x |-> <<fx[1]>> \o fx \o <<x_max>>,
              y |-> <<y_max>> \o fy \o <<y_max>>]

\* Whether (px, py) lies on the closed segment (x1, y1)-(x2, y2).
OnSegment(px, py, x1, y1, x2, y2) ==
    /\ (x2 - x1) * (py - y1) = (y2 - y1) * (px - x1)
    /\ Min2(x1, x2) <= px /\ px <= Max2(x1, x2)
    /\ Min2(y1, y2) <= py /\ py <= Max2(y1, y2)

\* Whether the horizontal ray from (px, py) towards +x crosses the edge.
RayCrosses(px, py, x1, y1, x2, y2) ==
    /\ (y1 > py) # (y2 > py)
    /\ IF y2 > y1
       THEN (px - x1) * (y2 - y1) < (py - y1) * (x2 - x1)
       ELSE (px - x1) * (y2 - y1) > (py - y1) * (x2 - x1)

\* The area ax.fill paints for the vertex lists poly.x, poly.y: the closed
\* polygon through the vertices in order (boundary included, even-odd rule).
InPolygon(poly, px, py) ==
    LET n       == Len(poly.x)
        nxt(i)  == IF i = n THEN 1 ELSE i + 1
        onEdge  == \E i \in 1..n :
                      OnSegment(px, py, poly.x[i], poly.y[i],
                                poly.x[nxt(i)], poly.y[nxt(i)])
        crossed == {i \in 1..n :
                      RayCrosses(px, py, poly.x[i], poly.y[i],
                                 poly.x[nxt(i)], poly.y[nxt(i)])}
    IN  n > 0 /\ (onEdge \/ Cardinality(crossed) % 2 = 1)

\* ------------------------------------------------------------------ state
VARIABLES
    \* SpecFn: the point list, the calls made so far and their results
    p_pc, p_loads, p_costs, p_front, p_floads, p_fcosts, p_front2,
    p_xmax, p_ymax, p_poly,
    \* SpecMain: the parsed arguments, the document and main()'s locals
    pc, minimals, time_max, shade, label_max, loads, costs, times,
    plotted, idxs, x_right, y_top, front_idxs, poly, error, saved,
    \* SpecGen: the generator called, its argument n and its locals
    g_pc, g_kind, g_n, rows, catalogue

fnVars == <<p_pc, p_loads, p_costs, p_front, p_floads, p_fcosts, p_front2,
            p_xmax, p_ymax, p_poly>>

mainVars == <<pc, minimals, time_max, shade, label_max, loads, costs, times,
              plotted, idxs, x_right, y_top, front_idxs, poly, error, saved>>

genVars == <<g_pc, g_kind, g_n, rows, catalogue>>

vars == <<fnVars, mainVars, genVars>>

NoPoly == [x |-> <<>>, y |-> <<>>]

NoError == [kind |-> "none", arg |-> <<>>]

\* The parts of the state a specification does not use stay at these values.
FnIdle ==
    /\ p_pc = "idle" /\ p_loads = <<>> /\ p_costs = <<>> /\ p_front = <<>>
    /\ p_floads = <<>> /\ p_fcosts = <<>> /\ p_front2 = <<>>
    /\ p_xmax = 0 /\ p_ymax = 0 /\ p_poly = NoPoly

MainIdle ==
    /\ pc = "idle" /\ minimals = {} /\ time_max = <<>> /\ shade = "none"
    /\ label_max = 0 /\ loads = <<>> /\ costs = <<>> /\ times = <<>>
    /\ plotted = FALSE /\ idxs = <<>> /\ x_right = 0 /\ y_top = 0
    /\ front_idxs = <<>> /\ poly = NoPoly /\ error = NoError /\ saved = FALSE

GenIdle ==
    /\ g_pc = "idle" /\ g_kind = "none" /\ g_n = 0 /\ rows = <<>>
    /\ catalogue = <<>>

\* ================================================================= SpecFn
\* All lists of at most n elements of S.
SeqsUpTo(S, n) == UNION {[1..k -> S] : k \in 0..n}

\* The input: any list of at most MaxPts (load, cost) points.
FnInit ==
    /\ p_pc = "input"
    /\ \E pts \in SeqsUpTo(Vals \X Vals, MaxPts) :
          /\ p_loads = [i \in 1..Len(pts) |-> pts[i][1]]
          /\ p_costs = [i \in 1..Len(pts) |-> pts[i][2]]
    /\ p_front = <<>> /\ p_floads = <<>> /\ p_fcosts = <<>> /\ p_front2 = <<>>
    /\ p_xmax = 0 /\ p_ymax = 0 /\ p_poly = NoPoly
    /\ MainIdle /\ GenIdle

\* front_idxs = pareto_2d_min(loads, costs) and the two selections made
\* from it.
CallPareto ==
    /\ p_pc = "input"
    /\ p_front' = pareto_2d_min(p_loads, p_costs)
    /\ p_floads' = Pick(p_loads, p_front')
    /\ p_fcosts' = Pick(p_costs, p_front')
    /\ p_pc' = "front"
    /\ UNCHANGED <<p_loads, p_costs, p_front2, p_xmax, p_ymax, p_poly>>
    /\ UNCHANGED <<mainVars, genVars>>

\* pareto_2d_min applied to the points the first call selected.
CallParetoAgain ==
    /\ p_pc = "front"
    /\ p_front2' = pareto_2d_min(p_floads, p_fcosts)
    /\ p_pc' = "again"
    /\ UNCHANGED <<p_loads, p_costs, p_front, p_floads, p_fcosts, p_xmax, p_ymax,
                   p_poly>>
    /\ UNCHANGED <<mainVars, genVars>>

\* shade_dominated_region on the selected frontier, with plot bounds at or
\* beyond the data maxima.
CallShade ==
    /\ p_pc = "front"
    /\ \E xm \in 0..(MaxVal + 1), ym \in 0..(MaxVal + 1) :
          /\ \A i \in DOMAIN p_loads : p_loads[i] <= xm /\ p_costs[i] <= ym
          /\ p_xmax' = xm
          /\ p_ymax' = ym
          /\ p_poly' = shade_dominated_region(p_floads, p_fcosts, xm, ym)
    /\ p_pc' = "shaded"
    /\ UNCHANGED <<p_loads, p_costs, p_front, p_floads, p_fcosts, p_front2>>
    /\ UNCHANGED <<mainVars, genVars>>

FnNext == CallPareto \/ CallParetoAgain \/ CallShade

SpecFn == FnInit /\ [][FnNext]_vars

\* =============================================================== SpecMain
\* ------------------------------------------------------------ load_antichain
\* The key load_antichain sorts by: (load, cost, time), time 0 for a tuple
\* of two components.  A point p is (cost, load[, time]).
LoadKey(p) == <<p[2], p[1], IF Len(p) > 2 THEN p[3] ELSE 0>>

\* A sort key in the order of the tuple's own components (cost, load, time).
LoadKeyCostFirst(p) == <<p[1], p[2], IF Len(p) > 2 THEN p[3] ELSE 0>>

\* load_antichain for the list pts = list(antichain).
LoadSorted(pts, keyed) ==
    IF pts = <<>> THEN [loads |-> <<>>, costs |-> <<>>, times |-> <<>>]
    ELSE LET sorted == SortByKey(keyed)
         IN  [loads |-> [i \in 1..Len(sorted) |-> sorted[i].p[2]],
              costs |-> [i \in 1..Len(sorted) |-> sorted[i].p[1]],
              times |-> IF Len(sorted[1].p) >= 3
                        THEN [i \in 1..Len(sorted) |-> sorted[i].p[3]]
                        ELSE [i \in 1..Len(sorted) |-> 0]]

\* load_antichain sorting by (cost, load, time).
load_antichain_costfirst(pts) ==
    LoadSorted(pts, [i \in 1..Len(pts) |-> [p |-> pts[i], key |-> LoadKeyCostFirst(pts[i])]])

load_antichain(pts) ==
    LoadSorted(pts, [i \in 1..Len(pts) |-> [p |-> pts[i], key |-> LoadKey(pts[i])]])

\* list(antichain): the elements of the set, each once, in any order.
RECURSIVE ListsOf(_)
ListsOf(S) ==
    IF S = {} THEN {<<>>}
    ELSE UNION {{<<x>> \o rest : rest \in ListsOf(S \ {x})} : x \in S}

\* --------------------------------------------------------- main: time slice
Zip3(l, c, t) == [i \in 1..Min2(Len(l), Min2(Len(c), Len(t))) |-> <<l[i], c[i], t[i]>>]

Unzip3(f) ==
    [loads |-> [i \in 1..Len(f) |-> f[i][1]],
     costs |-> [i \in 1..Len(f) |-> f[i][2]],
     times |-> [i \in 1..Len(f) |-> f[i][3]]]

\* A slice that keeps the points with t >= tmax.
time_filter_ge(l, c, t, tmax) ==
    Unzip3(SelectSeq(Zip3(l, c, t), LAMBDA x : x[3] >= tmax))

\* The points with t <= time_max, as the three lists main rebuilds.
time_filter(l, c, t, tmax) ==
    Unzip3(SelectSeq(Zip3(l, c, t), LAMBDA x : x[3] <= tmax))

\* ------------------------------------------------------------- main: labels
\* list(range(start, stop, step)) for step > 0.
Range(start, stop, step) ==
    LET cnt == IF stop > start THEN (stop - start + step - 1) \div step ELSE 0
    IN  [k \in 1..cnt |-> start + (k - 1) * step]

\* Whether computing the label indices divides by zero (n // label_max).
LabelsDivideByZero(n, lmax) == ~(n <= lmax) /\ lmax = 0

\* The indices main annotates.
label_idxs(n, lmax) ==
    IF n <= lmax THEN Range(0, n, 1)
    ELSE Range(0, n, Max2(1, FloorDiv(n, lmax)))

\* ------------------------------------------------------------- main: limits
\* 1.05 = LimNum / LimDen; plot coordinates are in units of 1 / LimDen.
LimNum == 21

LimDen == 20

\* A data list in plot units.
Scaled(s) == [i \in DOMAIN s |-> LimDen * s[i]]

\* ----------------------------------------------------------------- inputs
Tuples2 == Vals \X Vals

Tuples3 == Vals \X Vals \X Vals

\* a <= b in every component, a # b.
DominatesAll(a, b) == a # b /\ \A i \in DOMAIN a : a[i] <= b[i]

\* The antichains (no element dominates another) of at most k elements of T,
\* which is what the solver writes to minimals.
RECURSIVE AntichainsUpTo(_, _)
AntichainsUpTo(T, k) ==
    IF k = 0 THEN {{}}
    ELSE LET P == AntichainsUpTo(T, k - 1)
         IN  P \cup {sx[1] \cup {sx[2]} :
                        sx \in {q \in P \X T :
                                   \A y \in q[1] : ~DominatesAll(q[2], y)
                                                   /\ ~DominatesAll(y, q[2])}}

\* The time a point of the document has for main: its third component, 0 if
\* it has none.
TimeOf(p) == IF Len(p) > 2 THEN p[3] ELSE 0

\* parse_args and the document: any antichain of 2- or 3-tuples, any
\* --time-max (<<>> is None), --shade and --label-max.
MainInit ==
    /\ pc = "start"
    /\ minimals \in AntichainsUpTo(Tuples3, MaxPts) \cup AntichainsUpTo(Tuples2, MaxPts)
    /\ time_max \in {<<>>} \cup {<<t>> : t \in 0..MaxVal}
    /\ shade \in {"none", "projection", "slice"}
    /\ label_max \in (0 - 1)..MaxLabel
    /\ loads = <<>> /\ costs = <<>> /\ times = <<>>
    /\ plotted = FALSE /\ idxs = <<>> /\ x_right = 0 /\ y_top = 0
    /\ front_idxs = <<>> /\ poly = NoPoly /\ error = NoError /\ saved = FALSE
    /\ FnIdle /\ GenIdle

\* Load with the check for an empty result left out.
LoadUnchecked ==
    /\ pc = "start"
    /\ \E pts \in ListsOf(minimals) :
          LET r == load_antichain(pts)
          IN  /\ loads' = r.loads
              /\ costs' = r.costs
              /\ times' = r.times
              /\ pc' = "loaded"
              /\ error' = error
    /\ UNCHANGED <<minimals, time_max, shade, label_max, plotted, idxs, x_right,
                   y_top, front_idxs, poly, saved>>
    /\ UNCHANGED <<fnVars, genVars>>

\* loads, costs, times = load_antichain(...); raise if there is no point.
Load ==
    /\ pc = "start"
    /\ \E pts \in ListsOf(minimals) :
          LET r == load_antichain(pts)
          IN  /\ loads' = r.loads
              /\ costs' = r.costs
              /\ times' = r.times
              /\ IF r.loads = <<>>
                 THEN /\ pc' = "failed"
                      /\ error' = [kind |-> "EmptyAntichain", arg |-> <<>>]
                 ELSE /\ pc' = "loaded"
                      /\ error' = error
    /\ UNCHANGED <<minimals, time_max, shade, label_max, plotted, idxs, x_right,
                   y_top, front_idxs, poly, saved>>
    /\ UNCHANGED <<fnVars, genVars>>

\* The optional time slice; raise, naming the threshold, if nothing is left.
TimeSlice ==
    /\ pc = "loaded"
    /\ IF time_max # <<>>
       THEN LET r == time_filter(loads, costs, times, time_max[1])
            IN  /\ loads' = r.loads
                /\ costs' = r.costs
                /\ times' = r.times
                /\ IF r.loads = <<>>
                   THEN /\ pc' = "failed"
                        /\ error' = [kind |-> "EmptyAfterFilter", arg |-> time_max]
                   ELSE /\ pc' = "sliced"
                        /\ error' = error
       ELSE /\ pc' = "sliced"
            /\ UNCHANGED <<loads, costs, times, error>>
    /\ UNCHANGED <<minimals, time_max, shade, label_max, plotted, idxs, x_right,
                   y_top, front_idxs, poly, saved>>
    /\ UNCHANGED <<fnVars, genVars>>

\* plt.subplots, the scatter of the points, the colour bar, the utopia marker.
Scatter ==
    /\ pc = "sliced"
    /\ plotted' = TRUE
    /\ pc' = "scattered"
    /\ UNCHANGED <<minimals, time_max, shade, label_max, loads, costs, times, idxs,
                   x_right, y_top, front_idxs, poly, error, saved>>
    /\ UNCHANGED <<fnVars, genVars>>

\* The label indices and one annotation per index.
Labels ==
    /\ pc = "scattered"
    /\ IF LabelsDivideByZero(Len(loads), label_max)
       THEN /\ pc' = "failed"
            /\ error' = [kind |-> "ZeroDivisionError", arg |-> <<>>]
            /\ idxs' = idxs
       ELSE /\ pc' = "labelled"
            /\ idxs' = label_idxs(Len(loads), label_max)
            /\ error' = error
    /\ UNCHANGED <<minimals, time_max, shade, label_max, loads, costs, times,
                   plotted, x_right, y_top, front_idxs, poly, saved>>
    /\ UNCHANGED <<fnVars, genVars>>

\* Axis labels, title, grid and the axis limits.
Limits ==
    /\ pc = "labelled"
    /\ x_right' = LimNum * SeqMax(loads)
    /\ y_top' = LimNum * SeqMax(costs)
    /\ pc' = "limited"
    /\ UNCHANGED <<minimals, time_max, shade, label_max, loads, costs, times,
                   plotted, idxs, front_idxs, poly, error, saved>>
    /\ UNCHANGED <<fnVars, genVars>>

\* The shading step without the check that slice has a time ceiling.
ShadeUnchecked ==
    /\ pc = "limited"
    /\ IF shade # "none"
       THEN LET fr == pareto_2d_min(loads, costs)
            IN  /\ front_idxs' = fr
                /\ poly' = shade_dominated_region(Scaled(Pick(loads, fr)),
                                                  Scaled(Pick(costs, fr)),
                                                  x_right, y_top)
       ELSE UNCHANGED <<front_idxs, poly>>
    /\ pc' = "shaded"
    /\ UNCHANGED <<minimals, time_max, shade, label_max, loads, costs, times,
                   plotted, idxs, x_right, y_top, saved, error>>
    /\ UNCHANGED <<fnVars, genVars>>

\* The shading step: nothing for none; raise for slice without --time-max;
\* otherwise the 2D frontier and its polygon.
Shade ==
    /\ pc = "limited"
    /\ IF shade # "none"
       THEN IF shade = "slice" /\ time_max = <<>>
            THEN /\ pc' = "failed"
                 /\ error' = [kind |-> "SliceNeedsTimeMax", arg |-> <<>>]
                 /\ UNCHANGED <<front_idxs, poly>>
            ELSE LET fr == pareto_2d_min(loads, costs)
                 IN  /\ front_idxs' = fr
                     /\ poly' = shade_dominated_region(Scaled(Pick(loads, fr)),
                                                       Scaled(Pick(costs, fr)),
                                                       x_right, y_top)
                     /\ pc' = "shaded"
                     /\ error' = error
       ELSE /\ pc' = "shaded"
            /\ UNCHANGED <<front_idxs, poly, error>>
    /\ UNCHANGED <<minimals, time_max, shade, label_max, loads, costs, times,
                   plotted, idxs, x_right, y_top, saved>>
    /\ UNCHANGED <<fnVars, genVars>>

\* legend, tight_layout, savefig.
Save ==
    /\ pc = "shaded"
    /\ saved' = TRUE
    /\ pc' = "done"
    /\ UNCHANGED <<minimals, time_max, shade, label_max, loads, costs, times,
                   plotted, idxs, x_right, y_top, front_idxs, poly, error>>
    /\ UNCHANGED <<fnVars, genVars>>

MainNext == Load \/ TimeSlice \/ Scatter \/ Labels \/ Limits \/ Shade \/ Save

SpecMain == MainInit /\ [][MainNext]_vars

\* ================================================================ SpecGen
\* The values drawn for random.randint(-b, b): both ends and the middle.
Noise(b) == {0 - b, 0, b}

\* A quantity as the catalogue prints it: "<value> <unit>".
Qty(v, unit) == <<v, unit>>

\* The identifier model{k}.
ModelId(k) == <<"model", k>>

\* ------------------------------------------------------------- gen_aircraft
AircraftAreaBins == {10, 15, 20, 25, 30, 35, 40, 45, 50}

AircraftTimeBins == {6, 8, 10, 12, 15, 18, 22, 26, 30}

AircraftCostFloor == 120000

AircraftLoadFloor == 500

AircraftCostNoise == 25000

AircraftLoadNoise == 200

\* One regular row (area, cost, load, time) from the drawn values.
aircraft_row(area, time, nc, nl) ==
    LET cost == 150000 + area * 25000 + Max2(0, 22 - time) * 40000 + nc
        load == 1200 + area * 55 + Max2(0, 22 - time) * 95 + nl
    IN  <<area, Max2(cost, AircraftCostFloor), Max2(load, AircraftLoadFloor), time>>

\* Anchor rows with a digit missing from the first cost.
AircraftAnchorsShort == << <<10, 25000, 1500, 30>>, <<50, 2000000, 7000, 6>> >>

AircraftAnchors == << <<10, 250000, 1500, 30>>, <<50, 2000000, 7000, 6>> >>

\* Entries numbered from 1 instead of 0.
aircraft_impl_from1(rs) ==
    [k \in 1..Len(rs) |->
        [id    |-> ModelId(k),
         f_max |-> <<Qty(rs[k][1], "ha")>>,
         r_min |-> <<Qty(rs[k][2], "USD"), Qty(rs[k][3], "kg"), Qty(rs[k][4], "min")>>]]

\* The entries built by enumerate(rows).
aircraft_impl(rs) ==
    [k \in 1..Len(rs) |->
        [id    |-> ModelId(k - 1),
         f_max |-> <<Qty(rs[k][1], "ha")>>,
         r_min |-> <<Qty(rs[k][2], "USD"), Qty(rs[k][3], "kg"), Qty(rs[k][4], "min")>>]]

\* ---------------------------------------------------------------- gen_crews
CrewAreaBins == {20, 30, 40, 50, 60, 70, 80, 90, 100, 110, 120}

CrewTimeBins == {10, 15, 18, 20, 25, 30, 35, 40, 45, 60}

CrewCostFloor == 60000

CrewCostNoise == 12000

\* One regular row (area, cost, time).
crew_row(area, time, nc) ==
    LET cost == 80000 + area * 6500 + Max2(0, 45 - time) * 8000 + nc
    IN  <<area, Max2(cost, CrewCostFloor), time>>

CrewAnchors == << <<20, 150000, 60>>, <<120, 1050000, 10>> >>

crew_impl(rs) ==
    [k \in 1..Len(rs) |->
        [id    |-> ModelId(k - 1),
         f_max |-> <<Qty(rs[k][1], "ha")>>,
         r_min |-> <<Qty(rs[k][2], "USD"), Qty(rs[k][3], "min")>>]]

\* ------------------------------------------------------------ gen_retardant
RetardantLoadBins == {1000, 1500, 2000, 2500, 3000, 4000, 5000, 6000, 7000}

RetardantCostFloor == 10000

RetardantCostNoise == 3000

\* One regular row (load, cost).
retardant_row(load, nc) ==
    LET cost == 20000 + load * 18 + nc
    IN  <<load, Max2(cost, RetardantCostFloor)>>

RetardantAnchors == << <<2000, 50000>>, <<6000, 50000>> >>

retardant_impl(rs) ==
    [k \in 1..Len(rs) |->
        [id    |-> ModelId(k - 1),
         f_max |-> <<Qty(rs[k][1], "kg")>>,
         r_min |-> <<Qty(rs[k][2], "USD")>>]]

\* ------------------------------------------------------------------ actions
\* A call gen_<kind>(n), before its first row.
GenInit ==
    /\ g_pc = "rows"
    /\ g_kind \in {"aircraft", "crews", "retardant"}
    /\ g_n \in 0..MaxN
    /\ rows = <<>>
    /\ catalogue = <<>>
    /\ FnIdle /\ MainIdle

\* One pass of gen_aircraft's row loop.
AircraftRow ==
    /\ g_pc = "rows" /\ g_kind = "aircraft" /\ Len(rows) < g_n
    /\ \E area \in AircraftAreaBins, time \in AircraftTimeBins,
          nc \in Noise(AircraftCostNoise), nl \in Noise(AircraftLoadNoise) :
          rows' = Append(rows, aircraft_row(area, time, nc, nl))
    /\ UNCHANGED <<g_pc, g_kind, g_n, catalogue>>
    /\ UNCHANGED <<fnVars, mainVars>>

\* The rest of gen_aircraft: the anchors, the entries, the document.
AircraftReturn ==
    /\ g_pc = "rows" /\ g_kind = "aircraft" /\ ~(Len(rows) < g_n)
    /\ rows' = rows \o AircraftAnchors
    /\ catalogue' = [F |-> <<"ha">>, R |-> <<"USD", "kg", "min">>,
                     implementations |-> aircraft_impl(rows')]
    /\ g_pc' = "done"
    /\ UNCHANGED <<g_kind, g_n>>
    /\ UNCHANGED <<fnVars, mainVars>>

\* One pass of gen_crews's row loop.
CrewRow ==
    /\ g_pc = "rows" /\ g_kind = "crews" /\ Len(rows) < g_n
    /\ \E area \in CrewAreaBins, time \in CrewTimeBins, nc \in Noise(CrewCostNoise) :
          rows' = Append(rows, crew_row(area, time, nc))
    /\ UNCHANGED <<g_pc, g_kind, g_n, catalogue>>
    /\ UNCHANGED <<fnVars, mainVars>>

\* The rest of gen_crews.
CrewReturn ==
    /\ g_pc = "rows" /\ g_kind = "crews" /\ ~(Len(rows) < g_n)
    /\ rows' = rows \o CrewAnchors
    /\ catalogue' = [F |-> <<"ha">>, R |-> <<"USD", "min">>,
                     implementations |-> crew_impl(rows')]
    /\ g_pc' = "done"
    /\ UNCHANGED <<g_kind, g_n>>
    /\ UNCHANGED <<fnVars, mainVars>>

\* One pass of gen_retardant's row loop.
RetardantRow ==
    /\ g_pc = "rows" /\ g_kind = "retardant" /\ Len(rows) < g_n
    /\ \E load \in RetardantLoadBins, nc \in Noise(RetardantCostNoise) :
          rows' = Append(rows, retardant_row(load, nc))
    /\ UNCHANGED <<g_pc, g_kind, g_n, catalogue>>
    /\ UNCHANGED <<fnVars, mainVars>>

\* The rest of gen_retardant.
RetardantReturn ==
    /\ g_pc = "rows" /\ g_kind = "retardant" /\ ~(Len(rows) < g_n)
    /\ rows' = rows \o RetardantAnchors
    /\ catalogue' = [F |-> <<"kg">>, R |-> <<"USD">>,
                     implementations |-> retardant_impl(rows')]
    /\ g_pc' = "done"
    /\ UNCHANGED <<g_kind, g_n>>
    /\ UNCHANGED <<fnVars, mainVars>>

GenNext ==
    \/ AircraftRow \/ AircraftReturn
    \/ CrewRow \/ CrewReturn
    \/ RetardantRow \/ RetardantReturn

SpecGen == GenInit /\ [][GenNext]_vars

\* ------------------------------------------------- properties under SpecFn
\* (l1, c1) dominates (l2, c2) under minimisation.
Dominates2(l1, c1, l2, c2) == l1 <= l2 /\ c1 <= c2 /\ (l1 < l2 \/ c1 < c2)

\* The 1-based positions the first pareto_2d_min call returned.
FrontPos == {p_front[k] + 1 : k \in DOMAIN p_front}

\* C1: pareto_2d_min returns indices of exactly the non-dominated points: no
\* returned point is dominated by an input point, and every point that is
\* not returned is dominated by, or an exact duplicate of, a returned point.
C1_ParetoExact ==
    p_pc # "input" =>
        /\ FrontPos \subseteq DOMAIN p_loads
        /\ Cardinality(FrontPos) = Len(p_front)
        /\ \A i \in FrontPos : \A j \in DOMAIN p_loads :
              ~Dominates2(p_loads[j], p_costs[j], p_loads[i], p_costs[i])
        /\ \A i \in DOMAIN p_loads \ FrontPos : \E k \in FrontPos :
              \/ Dominates2(p_loads[k], p_costs[k], p_loads[i], p_costs[i])
              \/ (p_loads[k] = p_loads[i] /\ p_costs[k] = p_costs[i])

\* A call on three points, out of input order, that kept two of them.
C1_Witness ==
    /\ p_pc = "front"
    /\ Len(p_loads) = 3
    /\ Len(p_front) = 2
    /\ p_loads[1] > p_loads[3]

\* C2: frontier extraction is idempotent: pareto_2d_min applied to the
\* points a first call selected returns every one of them.
C2_Idempotent ==
    p_pc = "again" =>
        /\ Len(p_front2) = Len(p_floads)
        /\ {p_front2[k] : k \in DOMAIN p_front2} = 0..(Len(p_floads) - 1)

\* A second call on a frontier of two points, the first call having dropped
\* a point.
C2_Witness ==
    /\ p_pc = "again"
    /\ Len(p_floads) = 2
    /\ Len(p_loads) = 3

\* C10: inside the plot bounds the polygon of shade_dominated_region covers
\* exactly the dominated region: (x, y) is in the polygon iff some frontier
\* point has load <= x and cost <= y.
C10_PolygonIsDominatedRegion ==
    (p_pc = "shaded" /\ p_floads # <<>>) =>
        \A x \in 0..p_xmax, y \in 0..p_ymax :
            InPolygon(p_poly, x, y) <=>
                \E i \in DOMAIN p_floads : p_floads[i] <= x /\ p_fcosts[i] <= y

\* ----------------------------------------------- properties under SpecMain
\* The points of the document as (cost, load, time) triples.
DocTriples == {<<p[1], p[2], TimeOf(p)>> : p \in minimals}

\* C3: a run whose point set is empty after load, or becomes empty after the
\* time-ceiling filter, ends with the empty-result error (the filter case
\* naming the threshold) before any plotting and without a saved image.
C3_EmptyResultFails ==
    /\ (pc # "start" /\ minimals = {}) =>
          /\ pc = "failed"
          /\ error = [kind |-> "EmptyAntichain", arg |-> <<>>]
          /\ ~plotted /\ ~saved
    /\ (/\ pc \notin {"start", "loaded"}
        /\ minimals # {}
        /\ time_max # <<>>
        /\ \A p \in minimals : ~(TimeOf(p) <= time_max[1])) =>
          /\ pc = "failed"
          /\ error = [kind |-> "EmptyAfterFilter", arg |-> time_max]
          /\ ~plotted /\ ~saved

\* A run of a non-empty document that the time ceiling emptied.
C3_Witness ==
    /\ pc = "failed"
    /\ minimals # {}
    /\ error.kind = "EmptyAfterFilter"
    /\ loads = <<>>

\* C4 as stated: every run that asks for slice shading without a time
\* ceiling ends with the invalid-configuration error and without a saved
\* image.
C4_SliceAlwaysInvalidConfig ==
    (shade = "slice" /\ time_max = <<>>) =>
        /\ ~saved
        /\ pc \in {"failed", "done"} => error.kind = "SliceNeedsTimeMax"

\* C4 as amended: such a run never gets past the shading step and never
\* saves an image; it ends with the empty-result error when the document has
\* no point, with ZeroDivisionError when --label-max is 0, and with the
\* invalid-configuration error otherwise.
C4_SliceWithoutCeilingFails ==
    (shade = "slice" /\ time_max = <<>>) =>
        /\ ~saved
        /\ pc \notin {"shaded", "done"}
        /\ pc = "failed" =>
              error.kind = IF minimals = {} THEN "EmptyAntichain"
                           ELSE IF label_max = 0 THEN "ZeroDivisionError"
                           ELSE "SliceNeedsTimeMax"

\* A run that reached the shading step and was refused there.
C4_Witness ==
    /\ pc = "failed"
    /\ shade = "slice"
    /\ time_max = <<>>
    /\ error.kind = "SliceNeedsTimeMax"
    /\ plotted

\* C5: for a non-empty antichain load_antichain returns three lists of equal
\* length that are a permutation of the input, loads from the second
\* component, costs from the first, times from the third (0 if absent),
\* ascending by (load, cost, time).
C5_LoadSortedPermutation ==
    pc = "loaded" =>
        /\ Len(loads) = Cardinality(minimals)
        /\ Len(costs) = Len(loads)
        /\ Len(times) = Len(loads)
        /\ {<<costs[i], loads[i], times[i]>> : i \in DOMAIN loads} = DocTriples
        /\ \A i, j \in DOMAIN loads :
              i < j => ~LexLess(<<loads[j], costs[j], times[j]>>,
                                <<loads[i], costs[i], times[i]>>)

\* A load of three 3-tuples whose costs do not come out ascending.
C5_Witness ==
    /\ pc = "loaded"
    /\ Len(loads) = 3
    /\ \E p \in minimals : Len(p) = 3
    /\ costs[1] > costs[2]

\* The (load, cost, time) triples of the lists r.loads, r.costs, r.times.
TriplesOf(r) == {<<r.loads[i], r.costs[i], r.times[i]>> : i \in DOMAIN r.loads}

\* C6: the time slice is monotonic: for ceilings t1 <= t2 the points kept
\* under t1 are among those kept under t2, and are no more in number.  Stated
\* of the loaded point list, for every pair of ceilings.
C6_FilterMonotonic ==
    pc = "loaded" =>
        LET kept == [t \in 0..(MaxVal + 1) |-> time_filter(loads, costs, times, t)]
        IN  \A t1, t2 \in 0..(MaxVal + 1) :
                t1 <= t2 =>
                    /\ TriplesOf(kept[t1]) \subseteq TriplesOf(kept[t2])
                    /\ Len(kept[t1].loads) <= Len(kept[t2].loads)

\* A loaded list of which the ceiling given drops a point and keeps another.
C6_Witness ==
    /\ pc = "loaded"
    /\ time_max # <<>>
    /\ \E i, j \in DOMAIN times : times[i] <= time_max[1] /\ times[j] > time_max[1]

\* C9: with n >= 1 points and --label-max >= 0 the render step annotates at
\* most label_max points, all n of them when n <= label_max, and computing
\* the indices never fails.
C9_LabelsWithinCap ==
    label_max >= 0 =>
        /\ error.kind # "ZeroDivisionError"
        /\ pc \in {"labelled", "limited", "shaded", "done"} =>
              /\ Len(idxs) <= label_max
              /\ Len(loads) <= label_max => Len(idxs) = Len(loads)

\* ------------------------------------------------ properties under SpecGen
\* The anchor rows of the generator called.
AnchorsOf(kind) ==
    IF kind = "aircraft" THEN AircraftAnchors
    ELSE IF kind = "crews" THEN CrewAnchors
    ELSE RetardantAnchors

\* C7: in every row of every catalogue each resource value is at least the
\* floor of its catalogue type: aircraft cost >= 120000 and mass >= 500,
\* crew cost >= 60000, retardant cost >= 10000.
C7_ResourceFloors ==
    /\ \A k \in DOMAIN rows :
          /\ g_kind = "aircraft" => rows[k][2] >= 120000 /\ rows[k][3] >= 500
          /\ g_kind = "crews" => rows[k][2] >= 60000
          /\ g_kind = "retardant" => rows[k][2] >= 10000
    /\ g_pc = "done" =>
          \A k \in DOMAIN catalogue.implementations :
             LET r == catalogue.implementations[k].r_min
             IN  /\ g_kind = "aircraft" => r[1][1] >= 120000 /\ r[2][1] >= 500
                 /\ g_kind = "crews" => r[1][1] >= 60000
                 /\ g_kind = "retardant" => r[1][1] >= 10000

\* An aircraft catalogue with a regular row and its anchors.
C7_Witness ==
    /\ g_pc = "done"
    /\ g_kind = "aircraft"
    /\ g_n >= 1
    /\ Len(catalogue.implementations) >= 3

\* C8: a generator called with n emits n regular rows followed by its two
\* anchor rows, as n + 2 entries model0 .. model(n+1), each with as many
\* f_max values as F has names and as many r_min values as R has names
\* (aircraft 1/3, crews 1/2, retardant 1/1).
C8_CatalogueShape ==
    g_pc = "done" =>
        LET impl == catalogue.implementations
        IN  /\ Len(rows) = g_n + 2
            /\ SubSeq(rows, g_n + 1, g_n + 2) = AnchorsOf(g_kind)
            /\ Len(impl) = g_n + 2
            /\ \A k \in DOMAIN impl :
                  /\ impl[k].id = ModelId(k - 1)
                  /\ Len(impl[k].f_max) = Len(catalogue.F)
                  /\ Len(impl[k].r_min) = Len(catalogue.R)
            /\ Len(catalogue.F) = 1
            /\ Len(catalogue.R) = IF g_kind = "aircraft" THEN 3
                                  ELSE IF g_kind = "crews" THEN 2 ELSE 1

\* A crew catalogue generated with n = 1.
C8_Witness ==
    /\ g_pc = "done"
    /\ g_kind = "crews"
    /\ g_n = 1
    /\ Len(catalogue.implementations) = 3

====
